---- MODULE Spec2Model ----
(***************************************************************************)
(* A model of the mcf password-encoding plugins argon2 and pbkdf2: their   *)
(* Config types, the parameter text they write into and read back from a   *)
(* stored record, their validation and strength comparison, and the        *)
(* registration of an Encoder built from a Config snapshot.                *)
(*                                                                         *)
(* Text is modelled character by character: a string is a sequence of      *)
(* one-character strings, fmt.Sprintf and fmt.Sscanf are operators over    *)
(* such sequences.                                                         *)
(***************************************************************************)
EXTENDS Integers, Sequences, FiniteSets, TLC

VARIABLES
    plugin,     \* the algorithm package the embedding application configures
    registry,   \* mcf's table: algorithm id -> registered Encoder
    config,     \* the caller's own Config variable (config := GetConfig())
    other,      \* a second Config value held by the caller
    stored,     \* the encoded password the application persisted, or NoRecord
    ret,        \* what the last call returned, with the arguments it was given
    lastOk,     \* history: the Config passed to the last successful register
    pc,         \* concurrent callers: position of each goroutine
    arg,        \* concurrent callers: the Config a SetConfig call was given
    enc,        \* concurrent callers: the Encoder a call looked up
    loc,        \* concurrent callers: the Implementer copy a call obtained
    hist,       \* history: every Config registered so far
    lastReg     \* history: the Config of the latest completed registration

vars == <<plugin, registry, config, other, stored, ret, lastOk,
          pc, arg, enc, loc, hist, lastReg>>

-----------------------------------------------------------------------------
(* Bounds of the model.                                                    *)

\* Iterations takes the values default * 2^k, k in 0..MaxDoublings.
MaxDoublings == 1
\* Number of goroutines that call SetConfig concurrently.
MaxSetters == 2

-----------------------------------------------------------------------------
(* Text.                                                                   *)

Nil == "nil"

DigitChars == <<"0", "1", "2", "3", "4", "5", "6", "7", "8", "9">>

DigitVals == [ch \in {DigitChars[d] : d \in 1..10} |->
                 (CHOOSE d \in 1..10 : DigitChars[d] = ch) - 1]

IsDigit(ch) == ch \in DOMAIN DigitVals

DigitVal(ch) == DigitVals[ch]

IsSpace(ch) == ch = " "

RECURSIVE FormatNat(_)
FormatNat(n) ==
    IF n < 10 THEN <<DigitChars[n + 1]>>
    ELSE FormatNat(n \div 10) \o <<DigitChars[(n % 10) + 1]>>

\* %d of an integer operand.
FormatInt(n) == IF n < 0 THEN <<"-">> \o FormatNat(-n) ELSE FormatNat(n)

\* One operand under one verb: %d prints the decimal integer, %s the string
\* (for a Hash, its String() method: the characters themselves).
FormatArg(verb, a) == IF verb = "d" THEN FormatInt(a) ELSE a

\* fmt.Sprintf(format, args...): literal characters are copied, each %verb
\* consumes the next operand.
RECURSIVE Sprintf(_, _)
Sprintf(format, args) ==
    IF format = <<>> THEN <<>>
    ELSE IF Head(format) = "%"
         THEN FormatArg(format[2], Head(args))
                 \o Sprintf(SubSeq(format, 3, Len(format)), Tail(args))
         ELSE <<Head(format)>> \o Sprintf(Tail(format), args)

\* ss.SkipSpace: the position of the first non-space character at or after i.
RECURSIVE SkipSpace(_, _)
SkipSpace(inp, i) ==
    IF i <= Len(inp) /\ IsSpace(inp[i]) THEN SkipSpace(inp, i + 1) ELSE i

\* The end (exclusive) of the run of digits that starts at i.
RECURSIVE DigitsEnd(_, _)
DigitsEnd(inp, i) ==
    IF i <= Len(inp) /\ IsDigit(inp[i]) THEN DigitsEnd(inp, i + 1) ELSE i

\* The end (exclusive) of the run of non-space characters that starts at i.
RECURSIVE WordEnd(_, _)
WordEnd(inp, i) ==
    IF i <= Len(inp) /\ ~IsSpace(inp[i]) THEN WordEnd(inp, i + 1) ELSE i

\* strconv.ParseUint of a run of digits, base 10.
RECURSIVE ParseNat(_)
ParseNat(tok) ==
    IF tok = <<>> THEN 0
    ELSE 10 * ParseNat(SubSeq(tok, 1, Len(tok) - 1)) + DigitVal(tok[Len(tok)])

\* ss.scanOne for one operand of the given Go type at position i (spaces
\* already skipped): [err, val, next]. An int accepts a sign, a uint32 does
\* not; both need at least one digit. (A token beyond the range of the type
\* is an error in Go; the numbers of this model stay far below 2^31.)
\* A string operand under %s takes the next run of non-space characters
\* and fails at the end of the input.
ScanOne(inp, i, type) ==
    IF i > Len(inp) THEN [err |-> "unexpected EOF", val |-> 0, next |-> i]
    ELSE IF type = "string"
    THEN LET e == WordEnd(inp, i)
         IN [err |-> Nil, val |-> SubSeq(inp, i, e - 1), next |-> e]
    ELSE LET signed == type = "int" /\ inp[i] \in {"+", "-"}
             s == IF signed THEN i + 1 ELSE i
             e == DigitsEnd(inp, s)
             n == ParseNat(SubSeq(inp, s, e - 1))
             v == IF signed /\ inp[i] = "-" THEN -n ELSE n
         IN IF e = s
            THEN [err |-> "expected integer", val |-> 0, next |-> s]
            ELSE [err |-> Nil, val |-> v, next |-> e]

\* fmt.Sscanf(inp, format, operands...): [err, vals], vals being the values
\* stored into the operands before the scan ended (an operand after a failure
\* keeps what it held). Literal characters of the format must match the
\* input; before a verb, spaces of the input are skipped; input left over
\* when the format is exhausted is not looked at.
RECURSIVE Scan(_, _, _, _, _, _)
Scan(inp, format, types, i, f, vals) ==
    IF f > Len(format)
    THEN [err |-> IF Len(vals) < Len(types) THEN "too many operands" ELSE Nil,
          vals |-> vals]
    ELSE IF format[f] # "%"
    THEN IF i > Len(inp)
         THEN [err |-> "unexpected EOF", vals |-> vals]
         ELSE IF inp[i] # format[f]
         THEN [err |-> "input does not match format", vals |-> vals]
         ELSE Scan(inp, format, types, i + 1, f + 1, vals)
    ELSE IF Len(vals) >= Len(types)
    THEN [err |-> "too few operands", vals |-> vals]
    ELSE LET r == ScanOne(inp, SkipSpace(inp, i), types[Len(vals) + 1])
         IN IF r.err # Nil
            THEN [err |-> r.err, vals |-> vals]
            ELSE Scan(inp, format, types, r.next, f + 2, Append(vals, r.val))

Sscanf(inp, format, types) == Scan(inp, format, types, 1, 1, <<>>)

\* The operands of a scan written into the fields of c: fields[k] receives
\* vals[k] for every value the scan stored; the other fields keep their value.
Assign(c, fields, vals) ==
    [f \in DOMAIN c |->
        IF \E k \in 1..Len(vals) : fields[k] = f
        THEN vals[CHOOSE k \in 1..Len(vals) : fields[k] = f]
        ELSE c[f]]

-----------------------------------------------------------------------------
(* Package argon2.                                                         *)

argon2_DefaultKeyLen == 32
argon2_DefaultSaltLen == 16
argon2_DefaultIterations == 8
argon2_DefaultMemory == 1024
argon2_DefaultParallelism == 4

argon2_GetConfig ==
    [KeyLen |-> argon2_DefaultKeyLen,
     SaltLen |-> argon2_DefaultSaltLen,
     Iterations |-> argon2_DefaultIterations,
     Memory |-> argon2_DefaultMemory,
     Parallelism |-> argon2_DefaultParallelism]

\* Config.Key: the call of the argon2 library. The library is outside the
\* repository: it is taken to refuse a zero cost and a memory smaller than
\* its minimum per lane, and otherwise to return a digest that is a function
\* of exactly the arguments handed to it (no two argument lists collide).
argon2_Key(c, plaintext, salt) ==
    IF c.Iterations < 1 \/ c.Parallelism < 1 \/ c.Memory < 8 * c.Parallelism
       \/ c.KeyLen < 1
    THEN [err |-> "argon2: invalid parameter", key |-> <<>>]
    ELSE [err |-> Nil,
          key |-> <<"argon2i", plaintext, salt,
                    c.Iterations, c.Parallelism, c.Memory, c.KeyLen>>]

\* Config.validate: derive once on fixed inputs and return the error.
argon2_validate(c) ==
    argon2_Key(c, "password", [len |-> 4, seed |-> "salt"]).err

\* "KeyLen=%d,I=%d,M=%d,P=%d"
argon2_format ==
    <<"K", "e", "y", "L", "e", "n", "=", "%", "d", ",",
      "I", "=", "%", "d", ",", "M", "=", "%", "d", ",", "P", "=", "%", "d">>

\* A faulty variant of Params: the memory and parallelism operands are
\* written in each other's place.
argon2_ParamsSwapped(c) ==
    Sprintf(argon2_format, <<c.KeyLen, c.Iterations, c.Parallelism, c.Memory>>)

argon2_Params(c) ==
    Sprintf(argon2_format, <<c.KeyLen, c.Iterations, c.Memory, c.Parallelism>>)

\* Config.SetParams: [err, c], c being the receiver after the call.
argon2_SetParams(c, s) ==
    LET r == Sscanf(s, argon2_format, <<"int", "uint32", "uint32", "uint32">>)
        c1 == Assign(c, <<"KeyLen", "Iterations", "Memory", "Parallelism">>,
                     r.vals)
    IN IF r.err # Nil THEN [err |-> r.err, c |-> c1]
       ELSE [err |-> argon2_validate(c1), c |-> c1]

\* A faulty variant of AtLeast: the memory cost is left out of the comparison.
argon2_AtLeastNoMemory(c, current) ==
    ~(c.Iterations < current.Iterations
      \/ c.Parallelism < current.Parallelism \/ c.KeyLen < current.KeyLen)

argon2_AtLeast(c, current) ==
    ~(c.Iterations < current.Iterations \/ c.Memory < current.Memory
      \/ c.Parallelism < current.Parallelism \/ c.KeyLen < current.KeyLen)

-----------------------------------------------------------------------------
(* Package pbkdf2.                                                         *)

SHA1 == <<"S", "H", "A", "1">>
SHA224 == <<"S", "H", "A", "2", "2", "4">>
SHA256 == <<"S", "H", "A", "2", "5", "6">>
SHA384 == <<"S", "H", "A", "3", "8", "4">>
SHA512 == <<"S", "H", "A", "5", "1", "2">>

\* The keys of the map hashes.
hashes == {SHA1, SHA224, SHA256, SHA384, SHA512}

\* Hash.Size: the digest size in bytes of the hash function.
Size(h) ==
    CASE h = SHA1 -> 20
      [] h = SHA224 -> 28
      [] h = SHA256 -> 32
      [] h = SHA384 -> 48
      [] h = SHA512 -> 64

pbkdf2_DefaultIterations == 2000
pbkdf2_DefaultSaltLen == 16
pbkdf2_DefaultPrf == SHA1
pbkdf2_DefaultKeyLen == Size(pbkdf2_DefaultPrf)

pbkdf2_GetConfig ==
    [Iterations |-> pbkdf2_DefaultIterations,
     SaltLen |-> pbkdf2_DefaultSaltLen,
     Hash |-> pbkdf2_DefaultPrf,
     KeyLen |-> pbkdf2_DefaultKeyLen]

pbkdf2_validate(c) == IF c.Hash \in hashes THEN Nil ELSE "Invalid Hash"

\* "keylen=%d,iterations=%d,hmac=%s"
pbkdf2_format ==
    <<"k", "e", "y", "l", "e", "n", "=", "%", "d", ",",
      "i", "t", "e", "r", "a", "t", "i", "o", "n", "s", "=", "%", "d", ",",
      "h", "m", "a", "c", "=", "%", "s">>

pbkdf2_Params(c) == Sprintf(pbkdf2_format, <<c.KeyLen, c.Iterations, c.Hash>>)

pbkdf2_SetParams(c, params) ==
    LET r == Sscanf(params, pbkdf2_format, <<"int", "int", "string">>)
        c1 == Assign(c, <<"KeyLen", "Iterations", "Hash">>, r.vals)
    IN IF r.err # Nil THEN [err |-> r.err, c |-> c1]
       ELSE [err |-> pbkdf2_validate(c1), c |-> c1]

\* Config.Key: the first KeyLen bytes of the PBKDF2 stream of password, salt,
\* iteration count and hash function; the error is always nil.
pbkdf2_Key(c, password, salt) ==
    [err |-> Nil,
     key |-> IF c.KeyLen = 0 THEN <<>>
             ELSE <<"pbkdf2", password, salt, c.Iterations, c.KeyLen, c.Hash>>]

pbkdf2_AtLeast(c, current) ==
    ~(c.Iterations < current.Iterations \/ c.KeyLen < current.KeyLen
      \/ c.SaltLen < current.SaltLen)

-----------------------------------------------------------------------------
(* The Implementer the bridge works with: the methods of the Config type   *)
(* that the constructor of an Encoder returns.                             *)

GetConfig(type) == IF type = "argon2" THEN argon2_GetConfig ELSE pbkdf2_GetConfig

validate(type, c) ==
    IF type = "argon2" THEN argon2_validate(c) ELSE pbkdf2_validate(c)

Params(type, c) == IF type = "argon2" THEN argon2_Params(c) ELSE pbkdf2_Params(c)

SetParams(type, c, s) ==
    IF type = "argon2" THEN argon2_SetParams(c, s) ELSE pbkdf2_SetParams(c, s)

Key(type, c, plaintext, salt) ==
    IF type = "argon2" THEN argon2_Key(c, plaintext, salt)
    ELSE pbkdf2_Key(c, plaintext, salt)

AtLeast(type, c, current) ==
    IF type = "argon2" THEN argon2_AtLeast(c, current)
    ELSE pbkdf2_AtLeast(c, current)

\* Config.Salt: SaltLen bytes from the salt source; seed stands for the bytes.
Salt(c, seed) == [len |-> c.SaltLen, seed |-> seed]

-----------------------------------------------------------------------------
(* Registration: the constructor closure, the bridge Encoder, the table.   *)

\* A faulty variant of the id: that of the other package, as after copying
\* its register.
argon2_idCopied == "pbkdf2"

\* The ids handed to bridge.New.
argon2_id == "argon2"

pbkdf2_id == "pbkdf2"

\* The keys mcf.ARGON2 and mcf.PBKDF2 of the table.
Encodings == {"ARGON2", "PBKDF2"}

TypeOf(encoding) == IF encoding = "ARGON2" THEN "argon2" ELSE "pbkdf2"

\* fn: the constructor closure of register. It captured register's own
\* parameter and hands out a copy of it on every call.
fn(captured) == captured

\* A faulty variant of Captured: the closure returns the address of the
\* captured Config itself, so a change to the Implementer is a change to it.
Escaped(captured, c) == c

\* What the closure's captured Config holds once an Implementer it handed
\* out has been changed to c: the Implementer was a copy, so what it held.
Captured(captured, c) == captured

\* bridge.New(id, fn): an Encoder is its id and its constructor; the
\* constructor is the Config it captured and the type it returns.
New(id, type, captured) == [id |-> id, type |-> type, captured |-> captured]

\* mcf.Register(encoding, enc): the entry is replaced as a whole.
Register(reg, encoding, e) == [reg EXCEPT ![encoding] = e]

\* register(config) of either package: the Encoder it builds.
argon2_register(c) == New(argon2_id, "argon2", c)

pbkdf2_register(c) == New(pbkdf2_id, "pbkdf2", c)

register(type, c) ==
    IF type = "argon2" THEN argon2_register(c) ELSE pbkdf2_register(c)

\* A faulty variant of SetConfig: the error of validate is returned but does
\* not stop the call.
SetConfigSkip(type, encoding, reg, c) ==
    [err |-> validate(type, c), reg |-> Register(reg, encoding, register(type, c))]

\* SetConfig(config) of either package on the table reg: [err, reg].
SetConfig(type, encoding, reg, c) ==
    LET err == validate(type, c)
    IN IF err # Nil THEN [err |-> err, reg |-> reg]
       ELSE [err |-> Nil, reg |-> Register(reg, encoding, register(type, c))]

\* The table after the init functions of both packages.
InitRegistry ==
    [k \in Encodings |-> register(TypeOf(k), GetConfig(TypeOf(k)))]

-----------------------------------------------------------------------------
(* The bridge Encoder: Generate, Verify, IsCurrent over an Implementer.    *)

NoRecord == [id |-> "none"]

\* Encoder.Generate: [err, encoded]; an encoded password is the record
\* id, params, salt, key.
Generate(e, plaintext, seed) ==
    LET c == fn(e.captured)
        salt == Salt(c, seed)
        k == Key(e.type, c, plaintext, salt)
    IN IF k.err # Nil THEN [err |-> k.err, encoded |-> NoRecord]
       ELSE [err |-> Nil,
             encoded |-> [id |-> e.id, params |-> Params(e.type, c),
                          salt |-> salt, key |-> k.key]]

\* Encoder.decode: a record of another id is refused before any Implementer
\* is made; otherwise a fresh Implementer takes the record's params.
\* [err, c, parsed]: parsed names the Config type that read the params.
decode(e, encoded) ==
    IF encoded.id # e.id
    THEN [err |-> "id mismatch", c |-> fn(e.captured), parsed |-> "none"]
    ELSE LET r == SetParams(e.type, fn(e.captured), encoded.params)
         IN [err |-> r.err, c |-> r.c, parsed |-> e.type]

\* Encoder.Verify: [valid, err, c, parsed].
Verify(e, plaintext, encoded) ==
    LET d == decode(e, encoded)
        k == Key(e.type, d.c, plaintext, encoded.salt)
    IN IF d.err # Nil
       THEN [valid |-> FALSE, err |-> d.err, c |-> d.c, parsed |-> d.parsed]
       ELSE IF k.err # Nil
       THEN [valid |-> FALSE, err |-> k.err, c |-> d.c, parsed |-> d.parsed]
       ELSE [valid |-> k.key = encoded.key, err |-> Nil, c |-> d.c,
             parsed |-> d.parsed]

\* Encoder.IsCurrent: [current, err, c, parsed].
IsCurrent(e, encoded) ==
    LET d == decode(e, encoded)
    IN IF d.err # Nil
       THEN [current |-> FALSE, err |-> d.err, c |-> d.c, parsed |-> d.parsed]
       ELSE [current |-> AtLeast(e.type, d.c, fn(e.captured)), err |-> Nil,
             c |-> d.c, parsed |-> d.parsed]

\* The Encoder after a call that changed the Implementer it was handed to c.
AfterCall(e, c) == [e EXCEPT !.captured = Captured(e.captured, c)]

-----------------------------------------------------------------------------
(* The inputs of the calls.                                                *)

\* The password the application stores, and what a login may offer.
Password == "password"

Plaintexts == {Password, "letmein"}

Seeds == {"saltsalt"}

MD5 == <<"M", "D", "5">>

Pow2(k) == 2^k

MaxIterations(type) == GetConfig(type).Iterations * Pow2(MaxDoublings)

\* What the caller may do to its Config variable: double the work factor,
\* halve the salt length, raise the memory cost (argon2) or change the hmac
\* and the key length with it (pbkdf2), or set a value the package refuses.
Mutations(type, c) ==
    (IF c.Iterations * 2 <= MaxIterations(type)
     THEN {[c EXCEPT !.Iterations = @ * 2]} ELSE {})
    \cup (IF c.SaltLen = GetConfig(type).SaltLen
          THEN {[c EXCEPT !.SaltLen = @ \div 2]} ELSE {})
    \cup (IF type = "argon2"
          THEN {[c EXCEPT !.Memory = argon2_DefaultMemory * 2],
                [c EXCEPT !.Parallelism = 0]}
          ELSE {[c EXCEPT !.Hash = SHA256, !.KeyLen = Size(SHA256)],
                [c EXCEPT !.Hash = MD5]})

\* What may have happened to the params text of a record between the call
\* that wrote it and the call that reads it.
Tampers == {"none", "cut", "half", "junk", "word"}

TamperText(t, how) ==
    CASE how = "none" -> t
      [] how = "cut" -> SubSeq(t, 1, Len(t) - 1)
      [] how = "half" -> SubSeq(t, 1, Len(t) \div 2)
      [] how = "junk" -> t \o <<"x">>
      [] how = "word" -> t \o <<" ", "x">>

Tamper(encoded, how) == [encoded EXCEPT !.params = TamperText(@, how)]

-----------------------------------------------------------------------------
(* One application, one call at a time.                                    *)

Idle == [p \in {} |-> 0]

\* No call has returned a result the caller has yet to look at.
NoCall == [op |-> "none"]

Init ==
    /\ plugin \in Encodings
    /\ registry = InitRegistry
    /\ config = GetConfig(TypeOf(plugin))
    /\ other = GetConfig(TypeOf(plugin))
    /\ stored = [encoded |-> NoRecord]
    /\ ret = NoCall
    /\ lastOk = [k \in Encodings |-> GetConfig(TypeOf(k))]
    /\ pc = Idle /\ arg = Idle /\ enc = Idle /\ loc = Idle
    /\ hist = {} /\ lastReg = Idle

\* config := GetConfig()
CallGetConfig ==
    /\ ret = NoCall
    /\ config' = GetConfig(TypeOf(plugin))
    /\ ret' = [op |-> "GetConfig", cfg |-> config']
    /\ UNCHANGED <<plugin, registry, other, stored, lastOk,
                   pc, arg, enc, loc, hist, lastReg>>

\* The caller writes a field of its own Config variable.
Mutate ==
    /\ ret = NoCall
    /\ config' \in Mutations(TypeOf(plugin), config)
    /\ UNCHANGED <<plugin, registry, other, stored, ret, lastOk,
                   pc, arg, enc, loc, hist, lastReg>>

\* err := SetConfig(config)
CallSetConfig ==
    /\ ret = NoCall
    /\ \E r \in {SetConfig(TypeOf(plugin), plugin, registry, config)} :
       /\ registry' = r.reg
       /\ lastOk' = IF r.err = Nil THEN [lastOk EXCEPT ![plugin] = config]
                    ELSE lastOk
       /\ ret' = [op |-> "SetConfig", cfg |-> config, err |-> r.err]
       /\ UNCHANGED <<plugin, config, other, stored,
                      pc, arg, enc, loc, hist, lastReg>>

\* encoded, err := Generate(plaintext) with the registered Encoder; the
\* application stores the result.
CallGenerate(plaintext, seed) ==
    /\ ret = NoCall
    /\ \E e \in {registry[plugin]} : \E r \in {Generate(e, plaintext, seed)} :
       /\ registry' = [registry EXCEPT ![plugin] = AfterCall(e, fn(e.captured))]
       /\ stored' = IF r.err = Nil
                    THEN [encoded |-> r.encoded, plaintext |-> plaintext,
                          cfg |-> e.captured]
                    ELSE stored
       /\ ret' = [op |-> "Generate", plaintext |-> plaintext, err |-> r.err]
       /\ UNCHANGED <<plugin, config, other, lastOk,
                      pc, arg, enc, loc, hist, lastReg>>

\* valid, err := Verify(plaintext, encoded) with the Encoder registered for
\* encoding, on the stored record as it reads now.
CallVerify(encoding, plaintext, how) ==
    /\ ret = NoCall
    /\ stored.encoded # NoRecord
    /\ \E e \in {registry[encoding]}, encoded \in {Tamper(stored.encoded, how)} :
       \E r \in {Verify(e, plaintext, encoded)} :
          /\ registry' = [registry EXCEPT ![encoding] = AfterCall(e, r.c)]
          /\ ret' = [op |-> "Verify", encoding |-> encoding,
                     plaintext |-> plaintext, how |-> how, encoded |-> encoded,
                     valid |-> r.valid, err |-> r.err, parsed |-> r.parsed]
    /\ UNCHANGED <<plugin, config, other, stored, lastOk,
                   pc, arg, enc, loc, hist, lastReg>>

\* current, err := IsCurrent(encoded) with the Encoder registered for
\* encoding, on the stored record as it reads now.
CallIsCurrent(encoding, how) ==
    /\ ret = NoCall
    /\ stored.encoded # NoRecord
    /\ \E e \in {registry[encoding]}, encoded \in {Tamper(stored.encoded, how)} :
       \E r \in {IsCurrent(e, encoded)} :
          /\ registry' = [registry EXCEPT ![encoding] = AfterCall(e, r.c)]
          /\ ret' = [op |-> "IsCurrent", encoding |-> encoding, how |-> how,
                     encoded |-> encoded, current |-> r.current,
                     err |-> r.err, parsed |-> r.parsed,
                     reference |-> e.captured]
    /\ UNCHANGED <<plugin, config, other, stored, lastOk,
                   pc, arg, enc, loc, hist, lastReg>>

\* The caller has looked at the result of its last call.
Return ==
    /\ ret # NoCall
    /\ ret' = NoCall
    /\ UNCHANGED <<plugin, registry, config, other, stored, lastOk,
                   pc, arg, enc, loc, hist, lastReg>>

Next ==
    \/ Return
    \/ CallGetConfig
    \/ Mutate
    \/ CallSetConfig
    \/ \E s \in Seeds : CallGenerate(Password, s)
    \/ \E k \in Encodings, p \in Plaintexts, h \in Tampers : CallVerify(k, p, h)
    \/ \E k \in Encodings, h \in Tampers : CallIsCurrent(k, h)

Spec == Init /\ [][Next]_vars

-----------------------------------------------------------------------------
(* The methods applied to Config values the caller holds.                  *)

argon2_Configs ==
    [KeyLen : {argon2_DefaultKeyLen, argon2_DefaultKeyLen \div 2},
     SaltLen : {argon2_DefaultSaltLen, argon2_DefaultSaltLen \div 2},
     Iterations : {argon2_DefaultIterations * Pow2(k) : k \in 0..MaxDoublings},
     Memory : {argon2_DefaultMemory, argon2_DefaultMemory * 2},
     Parallelism : {argon2_DefaultParallelism, argon2_DefaultParallelism \div 2, 0}]

pbkdf2_Configs ==
    [Hash : {SHA1, SHA256, MD5},
     Iterations : {pbkdf2_DefaultIterations * Pow2(k) : k \in 0..MaxDoublings},
     KeyLen : {Size(SHA1), Size(SHA256)},
     SaltLen : {pbkdf2_DefaultSaltLen, pbkdf2_DefaultSaltLen \div 2}]

Configs(type) == IF type = "argon2" THEN argon2_Configs ELSE pbkdf2_Configs

InitPure ==
    /\ plugin \in Encodings
    /\ registry = InitRegistry
    /\ config \in Configs(TypeOf(plugin))
    /\ other \in Configs(TypeOf(plugin))
    /\ stored = [encoded |-> NoRecord]
    /\ ret = NoCall
    /\ lastOk = [k \in Encodings |-> GetConfig(TypeOf(k))]
    /\ pc = Idle /\ arg = Idle /\ enc = Idle /\ loc = Idle
    /\ hist = {} /\ lastReg = Idle

\* d := other; err := d.SetParams(config.Params())
ApplySetParams ==
    /\ ret = NoCall
    /\ \E r \in {SetParams(TypeOf(plugin), other, Params(TypeOf(plugin), config))} :
          ret' = [op |-> "SetParams", c |-> config, err |-> r.err, d |-> r.c]
    /\ UNCHANGED <<plugin, registry, config, other, stored, lastOk,
                   pc, arg, enc, loc, hist, lastReg>>

\* config.AtLeast(&other)
ApplyAtLeast ==
    /\ ret = NoCall
    /\ ret' = [op |-> "AtLeast", a |-> config, b |-> other,
               result |-> AtLeast(TypeOf(plugin), config, other)]
    /\ UNCHANGED <<plugin, registry, config, other, stored, lastOk,
                   pc, arg, enc, loc, hist, lastReg>>

\* IsCurrent of the Encoder registered with other, on a record generated by
\* the Encoder registered with config.
ApplyIsCurrent(seed) ==
    /\ ret = NoCall
    /\ validate(TypeOf(plugin), config) = Nil
    /\ validate(TypeOf(plugin), other) = Nil
    /\ \E g \in {Generate(register(TypeOf(plugin), config), Password, seed)} :
       \E r \in {IsCurrent(register(TypeOf(plugin), other), g.encoded)} :
          ret' = [op |-> "IsCurrent", S |-> config, L |-> other,
                  generr |-> g.err, current |-> r.current, err |-> r.err]
    /\ UNCHANGED <<plugin, registry, config, other, stored, lastOk,
                   pc, arg, enc, loc, hist, lastReg>>

NextPure ==
    \/ Return
    \/ ApplySetParams
    \/ ApplyAtLeast
    \/ \E s \in Seeds : ApplyIsCurrent(s)

SpecPure == InitPure /\ [][NextPure]_vars

-----------------------------------------------------------------------------
(* Concurrent callers: goroutines that call SetConfig while another one    *)
(* calls Generate, Verify and IsCurrent. A step is one access to the       *)
(* table, or the work a call does on values of its own between two.        *)

Setters == 1..MaxSetters

Readers == {0}

Procs == Setters \cup Readers

\* The Configs the concurrent SetConfig calls are given.
SetterConfigs(type) ==
    LET d == GetConfig(type)
    IN {[d EXCEPT !.Iterations = @ * 2],
        [d EXCEPT !.Iterations = @ * 2, !.SaltLen = @ \div 2],
        [d EXCEPT !.SaltLen = @ \div 2]}
       \cup (IF type = "argon2" THEN {[d EXCEPT !.Parallelism = 0]}
             ELSE {[d EXCEPT !.Hash = MD5]})

InitConc ==
    /\ plugin \in Encodings
    /\ registry = InitRegistry
    /\ config = GetConfig(TypeOf(plugin))
    /\ other = GetConfig(TypeOf(plugin))
    /\ stored = [encoded |-> NoRecord]
    /\ ret = NoCall
    /\ lastOk = [k \in Encodings |-> GetConfig(TypeOf(k))]
    /\ pc = [p \in Procs |-> "start"]
    /\ arg = [p \in Procs |-> "none"]
    /\ enc = [p \in Procs |-> "none"]
    /\ loc = [p \in Procs |-> "none"]
    /\ hist = {GetConfig(TypeOf(plugin))}
    /\ lastReg = GetConfig(TypeOf(plugin))

\* SetConfig(c), up to the call of register: validate works on the
\* goroutine's own copy of c; an error ends the call.
SetConfigValidate(p, c) ==
    /\ pc[p] = "start"
    /\ arg' = [arg EXCEPT ![p] = c]
    /\ loc' = [loc EXCEPT ![p] = validate(TypeOf(plugin), c)]
    /\ pc' = [pc EXCEPT ![p] = IF validate(TypeOf(plugin), c) # Nil
                                THEN "done" ELSE "register"]
    /\ UNCHANGED <<plugin, registry, config, other, stored, ret, lastOk,
                   enc, hist, lastReg>>

\* A faulty variant of register: it writes the fields of one Config shared by
\* all Encoders of the package, the iterations first and the rest after.
SetConfigRegisterInPlace(p) ==
    \/ /\ pc[p] = "register"
       /\ registry' = [registry EXCEPT ![plugin].captured =
                          [@ EXCEPT !.Iterations = arg[p].Iterations]]
       /\ pc' = [pc EXCEPT ![p] = "lengths"]
       /\ UNCHANGED <<plugin, config, other, stored, ret, lastOk,
                      arg, enc, loc, hist, lastReg>>
    \/ /\ pc[p] = "lengths"
       /\ registry' = [registry EXCEPT ![plugin].captured =
                          [arg[p] EXCEPT !.Iterations = @]]
       /\ hist' = hist \cup {arg[p]}
       /\ lastReg' = arg[p]
       /\ pc' = [pc EXCEPT ![p] = "done"]
       /\ UNCHANGED <<plugin, config, other, stored, ret, lastOk,
                      arg, enc, loc>>

\* SetConfig(c), the call of register: a new Encoder around a closure that
\* captured c replaces the table's entry.
SetConfigRegister(p) ==
    /\ pc[p] = "register"
    /\ registry' = Register(registry, plugin, register(TypeOf(plugin), arg[p]))
    /\ hist' = hist \cup {arg[p]}
    /\ lastReg' = arg[p]
    /\ pc' = [pc EXCEPT ![p] = "done"]
    /\ UNCHANGED <<plugin, config, other, stored, ret, lastOk, arg, enc, loc>>

\* A call of Generate, Verify or IsCurrent begins: it reads the table's entry.
CallLookup(p, op) ==
    /\ pc[p] = "start"
    /\ op # "Generate" => stored.encoded # NoRecord
    /\ arg' = [arg EXCEPT ![p] = op]
    /\ enc' = [enc EXCEPT ![p] = registry[plugin]]
    /\ pc' = [pc EXCEPT ![p] = "make"]
    /\ UNCHANGED <<plugin, registry, config, other, stored, ret, lastOk,
                   loc, hist, lastReg>>

\* The call obtains its Implementer from the Encoder's constructor.
CallMake(p) ==
    /\ pc[p] = "make"
    /\ loc' = [loc EXCEPT ![p] = fn(enc[p].captured)]
    /\ pc' = [pc EXCEPT ![p] = "run"]
    /\ UNCHANGED <<plugin, registry, config, other, stored, ret, lastOk,
                   arg, enc, hist, lastReg>>

\* The call does its work on its Implementer and returns.
CallRun(p, seed) ==
    /\ pc[p] = "run"
    /\ \/ /\ arg[p] = "Generate"
          /\ \E r \in {Generate(enc[p], Password, seed)} :
                stored' = [encoded |-> r.encoded, plaintext |-> Password,
                           cfg |-> loc[p]]
          /\ ret' = [op |-> "Generate", plaintext |-> Password, err |-> Nil]
       \/ /\ arg[p] = "Verify"
          /\ \E r \in {Verify(enc[p], Password, stored.encoded)} :
                ret' = [op |-> "Verify", valid |-> r.valid, err |-> r.err,
                        c |-> loc[p]]
          /\ UNCHANGED stored
       \/ /\ arg[p] = "IsCurrent"
          /\ \E r \in {IsCurrent(enc[p], stored.encoded)} :
                ret' = [op |-> "IsCurrent", current |-> r.current,
                        err |-> r.err, c |-> loc[p]]
          /\ UNCHANGED stored
    /\ pc' = [pc EXCEPT ![p] = "start"]
    /\ UNCHANGED <<plugin, registry, config, other, lastOk,
                   arg, enc, loc, hist, lastReg>>

NextConc ==
    \/ \E p \in Setters, c \in SetterConfigs(TypeOf(plugin)) :
          SetConfigValidate(p, c)
    \/ \E p \in Setters : SetConfigRegister(p)
    \/ \E p \in Readers, op \in {"Generate", "Verify", "IsCurrent"} :
          CallLookup(p, op)
    \/ \E p \in Readers : CallMake(p)
    \/ \E p \in Readers, s \in Seeds : CallRun(p, s)

SpecConc == InitConc /\ [][NextConc]_vars

-----------------------------------------------------------------------------
(* Properties.                                                             *)

\* The fields of a Config that Key or AtLeast reads.
ReadFields(type) ==
    IF type = "argon2" THEN {"KeyLen", "Iterations", "Memory", "Parallelism"}
    ELSE {"KeyLen", "Iterations", "Hash", "SaltLen"}

\* The cost and length dimensions of a Config.
Dimensions(type) ==
    IF type = "argon2"
    THEN {"Iterations", "Memory", "Parallelism", "KeyLen", "SaltLen"}
    ELSE {"Iterations", "KeyLen", "SaltLen"}

\* The dimensions that the params text of a record carries as numbers.
RecordDimensions(type) ==
    IF type = "argon2" THEN {"Iterations", "Memory", "Parallelism", "KeyLen"}
    ELSE {"Iterations", "KeyLen"}

MeetsOrExceeds(a, b, dims) == \A f \in dims : a[f] >= b[f]

\* t is what Params writes for some valid Config.
WellFormed(type, t) ==
    \E c \in Configs(type) : validate(type, c) = Nil /\ Params(type, c) = t

\* The last call was Verify by the configured package's own Encoder on the
\* stored record as it was written, with the password it was generated from.
VerifiedOwnRecord ==
    /\ ret.op = "Verify" /\ ret.encoding = plugin /\ ret.how = "none"
    /\ ret.plaintext = stored.plaintext

\* C1: the record Generate produced for a password verifies with that
\* password as (true, nil), under the Encoder that produced it and under
\* every Encoder a later successful SetConfig registered for the algorithm.
C1_GeneratedRecordVerifies ==
    VerifiedOwnRecord => (ret.valid /\ ret.err = Nil)

\* C1 witness: the record verified although the registered Config differs
\* from the one it was generated under in a field that Key reads.
C1_Witness ==
    /\ VerifiedOwnRecord /\ ret.valid
    /\ registry[plugin].captured.Iterations # stored.cfg.Iterations

\* C2: after d.SetParams(c.Params()) succeeds for a valid c, d equals c on
\* every field that Key or AtLeast reads.
C2_ParamsRoundTrip ==
    (ret.op = "SetParams" /\ validate(TypeOf(plugin), ret.c) = Nil)
        => /\ ret.err = Nil
           /\ \A f \in ReadFields(TypeOf(plugin)) : ret.d[f] = ret.c[f]

C4_SnapshotKept ==
    \A k \in Encodings : registry[k] = register(TypeOf(k), lastOk[k])

\* C4 witness: after a registration other than the default, the caller's
\* variable has moved on and a call has read params other than the registered
\* ones into its Implementer.
C4_Witness ==
    /\ lastOk[plugin] # GetConfig(TypeOf(plugin))
    /\ config # lastOk[plugin]
    /\ ret.op = "Verify" /\ ret.encoding = plugin /\ ret.err = Nil
    /\ ret.encoded.params # Params(TypeOf(plugin), registry[plugin].captured)

\* C5: a SetConfig call with a Config that fails validation returns a
\* non-nil error and leaves the table as it was.
C5_InvalidConfigRefused ==
    [][(ret = NoCall /\ ret'.op = "SetConfig"
        /\ validate(TypeOf(plugin), ret'.cfg) # Nil)
           => (ret'.err # Nil /\ registry' = registry)]_vars

\* C5 witness: a SetConfig call returned an error after an earlier call had
\* registered a Config other than the default, which is still registered.
C5_Witness ==
    /\ ret.op = "SetConfig" /\ ret.err # Nil
    /\ lastOk[plugin] # GetConfig(TypeOf(plugin))
    /\ registry[plugin].captured = lastOk[plugin]

\* C6: GetConfig returns the Config the registered Encoder uses for the next
\* Generate.
C6_GetConfigIsRegistered ==
    ret.op = "GetConfig" => ret.cfg = registry[plugin].captured

\* C7: Verify by the argon2 Encoder on a record whose id is pbkdf2, or by the
\* pbkdf2 Encoder on a record whose id is argon2, returns an error, never
\* valid, and no Config type reads the record's params.
C7_CrossAlgorithmRejected ==
    (/\ ret.op = "Verify"
     /\ \/ ret.encoding = "ARGON2" /\ ret.encoded.id = "pbkdf2"
        \/ ret.encoding = "PBKDF2" /\ ret.encoded.id = "argon2")
        => (ret.err # Nil /\ ~ret.valid /\ ret.parsed = "none")

\* C7 witness: the other package's Encoder was asked to verify the stored
\* record with the right password and refused it.
C7_Witness ==
    /\ ret.op = "Verify" /\ ret.encoding # plugin
    /\ ret.encoded.id \in {"argon2", "pbkdf2"}
    /\ ret.plaintext = stored.plaintext /\ ret.how = "none"
    /\ ret.err # Nil

\* C8: Verify and IsCurrent return an error whenever the params text of the
\* record is not what Params writes for a valid Config.
C8_BrokenRecordNoVerdict ==
    (/\ ret.op \in {"Verify", "IsCurrent"} /\ ret.encoding = plugin
     /\ ~WellFormed(TypeOf(plugin), ret.encoded.params))
        => ret.err # Nil

\* C10: for valid Configs a and b, a.AtLeast(b) is true iff a is at least b
\* on every cost and length dimension, the salt length included.
C10_AtLeastPerDimension ==
    (/\ ret.op = "AtLeast"
     /\ validate(TypeOf(plugin), ret.a) = Nil
     /\ validate(TypeOf(plugin), ret.b) = Nil)
        => ret.result = MeetsOrExceeds(ret.a, ret.b, Dimensions(TypeOf(plugin)))

\* C9: while SetConfig calls run beside it, every call of Generate, Verify
\* and IsCurrent works with an Encoder, and on an Implementer, whose Config
\* equals in every field one Config that was registered; and once every
\* SetConfig call has returned, the registered Config is that of the latest
\* registration.
C9_WholeRegistrations ==
    /\ \A p \in Readers :
          /\ pc[p] \in {"make", "run"} => enc[p].captured \in hist
          /\ pc[p] = "run" => loc[p] \in hist
    /\ (\A p \in Setters : pc[p] = "done")
          => registry[plugin].captured = lastReg

\* C9 witness: two SetConfig calls have registered different Configs, both
\* have returned, and a call is at work on the Config of the earlier one.
C9_Witness ==
    /\ \A p \in Setters : pc[p] = "done"
    /\ Cardinality(hist) >= 3
    /\ \E p \in Readers :
          /\ pc[p] = "run"
          /\ loc[p] # lastReg
          /\ loc[p] # GetConfig(TypeOf(plugin))

====
